---- MODULE Spec2Model ----
(***************************************************************************)
(* A model of the OR front end of Sources/main.c: the bump arena, the      *)
(* error collector, the lexer, the parse loop and the keyword prefix tree. *)
(*                                                                         *)
(* Characters are one-character strings; Code gives their ASCII code, so   *)
(* that the character classes are computed as the C code computes them.    *)
(* Memory is a sequence of characters read at 0-based offsets, as the C    *)
(* code indexes it.                                                        *)
(***************************************************************************)
EXTENDS Integers, Sequences, FiniteSets, TLC

VARIABLES
    mem,               \* the loaded source buffer, its terminator and the bytes after it
    symbols_overrun,   \* the non-zero bytes that follow symbols[6] in memory
    tokenizer,         \* Tokenizer: [at, line, file]
    context,           \* ParseContext, with the allocations and the push calls made on it
    pc,                \* "idle" | "loop" | "done": where ParseText stands
    token,             \* ParseText's local token, the token peeked last
    nodes,             \* the ExprNodes allocated so far, by index; next is an index or 0
    result,            \* ParseText's result: index of the first node, or 0
    node_store_target, \* ParseText's node_store_target: 0 for result, or the node whose next it is
    files,             \* main's files[]: the root returned by each finished ParseText
    iterations,        \* loop iterations of the running ParseText
    tree,              \* the prefix tree: [root, nodes]
    tree_fault,        \* "none", or how an insert failed: "store" (through a slot of an absent node), "loop"
    inserted           \* the key/value pairs given to InsertKeywordIntoTree, in call order

vars == <<mem, symbols_overrun, tokenizer, context, pc, token, nodes, result,
          node_store_target, files, iterations, tree, tree_fault, inserted>>

parseVars == <<mem, symbols_overrun, tokenizer, pc, token, nodes, result,
               node_store_target, files, iterations>>

treeVars == <<tree, tree_fault, inserted>>

----------------------------------------------------------------------------
(* Characters *)

NUL == "NUL"

\* the backquote character (code 96)
BACKQUOTE == "BACKQUOTE"

Code(c) ==
    CASE c = NUL  -> 0
      [] c = "\t" -> 9
      [] c = "\n" -> 10
      [] c = " "  -> 32
      [] c = "\"" -> 34
      [] c = "*"  -> 42
      [] c = "0"  -> 48
      [] c = "1"  -> 49
      [] c = "2"  -> 50
      [] c = "3"  -> 51
      [] c = "9"  -> 57
      [] c = ":"  -> 58
      [] c = ";"  -> 59
      [] c = "="  -> 61
      [] c = "["  -> 91
      [] c = "\\" -> 92
      [] c = "]"  -> 93
      [] c = "_"  -> 95
      [] c = BACKQUOTE -> 96
      [] c = "a"  -> 97
      [] c = "b"  -> 98
      [] c = "c"  -> 99
      [] c = "n"  -> 110
      [] c = "o"  -> 111
      [] c = "r"  -> 114
      [] c = "s"  -> 115
      [] c = "t"  -> 116
      [] c = "v"  -> 118
      [] c = "x"  -> 120
      [] c = "{"  -> 123
      [] c = "|"  -> 124
      [] c = "}"  -> 125

\* the characters the sources are written in
Alphabet ==
    { NUL, "\t", "\n", " ", "\"", "*", "0", "1", "2", "3", "9", ":", ";", "=", "[", "\\", "]",
      "_", BACKQUOTE, "a", "b", "c", "n", "o", "r", "s", "t", "v", "x", "{", "|", "}" }

\* c >= '0' && c <= '9'
Digits == { c \in Alphabet : Code(c) >= Code("0") /\ Code(c) <= Code("9") }

\* c <= 32
Spaces == { c \in Alphabet : Code(c) <= Code(" ") }

CharIsDigit(c) == c \in Digits

CharIsSpace(c) == c \in Spaces

\* static char symbols[6]: six characters and no terminator
symbols == <<"=", "{", "}", "*", "|", BACKQUOTE>>

\* CharIsSymbol runs to CalculateCStringLength(symbols): over the six characters and
\* then over whatever non-zero bytes follow the array (ov)
CharIsSymbol(c, ov) == (\E i \in 1..Len(symbols) : symbols[i] = c) \/ c \in ov

\* the character at 0-based offset p; memory past the modelled bytes reads as zero
At(m, p) == IF p >= 0 /\ p < Len(m) THEN m[p + 1] ELSE NUL

\* the n characters from 0-based offset p
Text(m, p, n) == [k \in 1..n |-> At(m, p + k - 1)]

\* CStringMatchCaseSensitiveN(a, b + p, n), with a a literal
CStringMatchCaseSensitiveN(a, m, p, n) ==
    /\ n # 0
    /\ \A i \in 0..(n - 1) : At(a, i) = At(m, p + i)

----------------------------------------------------------------------------
(* Lexer *)

NoToken == [type |-> "Token_None", string |-> -1, string_length |-> 0, lines_traversed |-> 0]

\* the scan in which every backslash escapes the character after it
RECURSIVE EscapedSpan_EveryBackslashEscapes(_, _, _, _, _)
EscapedSpan_EveryBackslashEscapes(m, p, len, escaped, delims) ==
    LET c == At(m, p + len) IN
    IF (c \notin delims \/ escaped) /\ c # NUL
    THEN EscapedSpan_EveryBackslashEscapes(m, p, len + 1, c = "\\", delims)
    ELSE len

\* the escape-aware scans of the Var, Const and StringConstant branches: the length
\* reached from len with the escaped flag as given
RECURSIVE EscapedSpan(_, _, _, _, _)
EscapedSpan(m, p, len, escaped, delims) ==
    LET c == At(m, p + len) IN
    IF (c \notin delims \/ escaped) /\ c # NUL
    THEN EscapedSpan(m, p, len + 1, (~escaped) /\ c = "\\", delims)
    ELSE len

\* the Int branch: digits and spaces up to ';', the terminator or the first other character
RECURSIVE IntSpan(_, _, _)
IntSpan(m, p, len) ==
    LET c == At(m, p + len) IN
    IF c # ";" /\ c # NUL /\ (CharIsDigit(c) \/ CharIsSpace(c))
    THEN IntSpan(m, p, len + 1)
    ELSE len

symbolic_blocks_to_break_out == << <<"=">>, <<"*">>, <<"_">>, <<BACKQUOTE>>, <<"{">>, <<"}">>, <<"|">>, <<";">> >>

\* for(j=i+1; buffer[j] && CharIsSymbol(buffer[j]); ++j);
RECURSIVE SymbolRun(_, _, _)
SymbolRun(m, j, ov) ==
    IF At(m, j) # NUL /\ CharIsSymbol(At(m, j), ov) THEN SymbolRun(m, j + 1, ov) ELSE j

\* the Symbol branch: the end j of the token that starts at i
SymbolEnd(m, i, ov) ==
    LET hits == {k \in 1..Len(symbolic_blocks_to_break_out) :
                    CStringMatchCaseSensitiveN(symbolic_blocks_to_break_out[k], m, i,
                                               Len(symbolic_blocks_to_break_out[k]))}
    IN IF hits = {} THEN SymbolRun(m, i + 1, ov)
       ELSE LET k == CHOOSE h \in hits : \A g \in hits : h <= g
            IN i + Len(symbolic_blocks_to_break_out[k])

RECURSIVE CountNewlines(_, _, _)
CountNewlines(m, p, n) ==
    IF n <= 0 THEN 0
    ELSE (IF At(m, p + n - 1) = "\n" THEN 1 ELSE 0) + CountNewlines(m, p, n - 1)

MakeToken(m, type, p, n) ==
    [type |-> type, string |-> p, string_length |-> n, lines_traversed |-> CountNewlines(m, p, n)]

RECURSIVE ScanToken(_, _, _)
ScanToken(m, i, ov) ==
    LET c == At(m, i) IN
    IF c = NUL THEN NoToken
    ELSE IF c = "\n" /\ At(m, i + 1) = "\n"
         THEN MakeToken(m, "Token_DoubleNewline", i, 2)
    ELSE IF c = "v" /\ At(m, i + 1) = "a" /\ At(m, i + 2) = "r"
         THEN MakeToken(m, "Token_Var", i, EscapedSpan(m, i, 0, TRUE, {"=", ":"}))
    ELSE IF c = "c" /\ At(m, i + 1) = "o" /\ At(m, i + 2) = "n" /\ At(m, i + 3) = "s"
              /\ At(m, i + 4) = "t"
         THEN MakeToken(m, "Token_Const", i, EscapedSpan(m, i, 0, TRUE, {";"}))
    ELSE IF c = "\""
         THEN MakeToken(m, "Token_StringConstant", i, EscapedSpan(m, i, 0, TRUE, {"\""}) + 1)
    ELSE IF CharIsDigit(c)
         THEN MakeToken(m, "Token_Int", i, IntSpan(m, i, 0))
    ELSE IF (~CharIsSpace(c)) /\ CharIsSymbol(c, ov)
         THEN MakeToken(m, "Token_Symbol", i, SymbolEnd(m, i, ov) - i)
    ELSE ScanToken(m, i + 1, ov)

GetNextTokenFromBuffer(m, tk, ov) == ScanToken(m, tk.at, ov)

PeekToken(m, tk, ov) == GetNextTokenFromBuffer(m, tk, ov)

\* the tokenizer after a token has been consumed
Advance(tk, t) ==
    [tk EXCEPT !.at = t.string + t.string_length, !.line = tk.line + t.lines_traversed]

\* the token consumed whether or not it is of the type asked for
RequireTokenType_AdvancesAlways(m, tk, ov, type, old) ==
    LET t == GetNextTokenFromBuffer(m, tk, ov) IN
    [match |-> t.type = type, token |-> IF t.type = type THEN t ELSE old,
     tokenizer |-> Advance(tk, t)]

\* RequireTokenType: [match, token, tokenizer]; token is what *token_ptr holds afterwards
RequireTokenType(m, tk, ov, type, old) ==
    LET t == GetNextTokenFromBuffer(m, tk, ov) IN
    IF t.type = type
    THEN [match |-> TRUE, token |-> t, tokenizer |-> Advance(tk, t)]
    ELSE [match |-> FALSE, token |-> old, tokenizer |-> tk]

TokenMatch(m, t, string) ==
    /\ t.type # "Token_None"
    /\ CStringMatchCaseSensitiveN(string, m, t.string, t.string_length)
    /\ At(string, t.string_length) = NUL

RequireToken(m, tk, ov, string, old) ==
    LET t == GetNextTokenFromBuffer(m, tk, ov) IN
    IF TokenMatch(m, t, string)
    THEN [match |-> TRUE, token |-> t, tokenizer |-> Advance(tk, t)]
    ELSE [match |-> FALSE, token |-> old, tokenizer |-> tk]

----------------------------------------------------------------------------
(* Arena *)

PARSE_CONTEXT_MEMORY_BLOCK_SIZE_DEFAULT == 4096

\* sizeof the structures the context allocates (LP64)
SizeofToken == 32
SizeofExprNode == 48
SizeofParseError == 24
SizeofKeywordPrefixTreeNode == 48

\* ParseContext context = {0};
EmptyContext ==
    [blocks |-> <<>>, head |-> 0, active |-> 0, allocations |-> <<>>,
     error_stack_allocated |-> FALSE, error_stack_size |-> 0, error_stack_size_max |-> 0,
     error_stack |-> <<>>, pushed |-> <<>>]

\* the largest value of a C int
INT_MAX == 2147483647

\* a + b leaves the range of int (a, b ints, b >= 0)
IntAddOverflows(a, b) == a > INT_MAX - b

\* a + b in 32-bit two's complement (b >= 0)
IntAdd(a, b) ==
    IF IntAddOverflows(a, b) THEN (a - INT_MAX - 1) + (b - INT_MAX - 1) ELSE a + b

\* does a request of size start a new block?  (the sum as the machine adds it)
NeedsNewBlock(ctx, size) ==
    \/ ctx.active = 0
    \/ IntAdd(ctx.blocks[ctx.active].alloc_position, size) > ctx.blocks[ctx.active].size

\* the outcomes of that test: the signed sum that overflows is undefined, and the
\* test may then go either way
NeedsNewBlockOutcomes(ctx, size) ==
    IF ctx.active # 0 /\ IntAddOverflows(ctx.blocks[ctx.active].alloc_position, size)
    THEN BOOLEAN
    ELSE { NeedsNewBlock(ctx, size) }

NeededBytes(size) ==
    IF size < PARSE_CONTEXT_MEMORY_BLOCK_SIZE_DEFAULT
    THEN PARSE_CONTEXT_MEMORY_BLOCK_SIZE_DEFAULT ELSE size

\* the context after ParseContextAllocateMemory(context, size) when the test for a
\* new block came out as fresh; the memory returned is the last entry of
\* allocations: [block, offset, size]
AllocateMemoryWhen(ctx, size, fresh) ==
    LET chunk  == IF fresh THEN Len(ctx.blocks) + 1 ELSE ctx.active
        linked == IF ctx.active # 0
                  THEN [ctx.blocks EXCEPT ![ctx.active].next = chunk]
                  ELSE ctx.blocks
        blocks == IF fresh
                  THEN Append(linked, [size |-> NeededBytes(size), alloc_position |-> 0,
                                       next |-> 0])
                  ELSE ctx.blocks
        pos    == blocks[chunk].alloc_position
    IN [ctx EXCEPT
          !.blocks = [blocks EXCEPT ![chunk].alloc_position = IntAdd(pos, size)],
          !.head = IF fresh /\ ctx.active = 0 THEN chunk ELSE ctx.head,
          !.active = chunk,
          !.allocations = Append(ctx.allocations,
                                 [block |-> chunk, offset |-> pos, size |-> size])]

\* ParseContextAllocateMemory(context, size) on the sizes the front end asks for
ParseContextAllocateMemory(ctx, size) ==
    AllocateMemoryWhen(ctx, size, NeedsNewBlock(ctx, size))

ParseContextAllocateNode(ctx) == ParseContextAllocateMemory(ctx, SizeofExprNode)

ParseContextAllocateToken(ctx) == ParseContextAllocateMemory(ctx, SizeofToken)

----------------------------------------------------------------------------
(* Error collector *)

ERROR_STACK_SIZE_MAX == 32

RECURSIVE Join(_)
Join(chars) == IF chars = <<>> THEN "" ELSE Head(chars) \o Join(Tail(chars))

\* a rendered message: its text, and the bytes vsnprintf reports for it
Message(prefix, chars, suffix) ==
    [text |-> prefix \o Join(chars) \o suffix,
     bytes |-> Len(prefix) + Len(chars) + Len(suffix)]

\* the first call materializes the log in the arena
EnsureErrorStack(ctx) ==
    IF ~ctx.error_stack_allocated
    THEN [ParseContextAllocateMemory(
             [ctx EXCEPT !.error_stack_size = 0,
                         !.error_stack_size_max = ERROR_STACK_SIZE_MAX],
             SizeofParseError * ERROR_STACK_SIZE_MAX)
          EXCEPT !.error_stack_allocated = TRUE]
    ELSE ctx

\* the capacity test off by one
ErrorStackHasRoom_OffByOne(ctx) == ctx.error_stack_size <= ctx.error_stack_size_max

ErrorStackHasRoom(ctx) == ctx.error_stack_size < ctx.error_stack_size_max

\* the context after PushParseError(context, tokenizer, format, ...), msg the rendering
PushParseError(ctx, tk, msg) ==
    LET error == [file |-> tk.file, line |-> tk.line, message |-> msg.text]
        c1    == [EnsureErrorStack(ctx) EXCEPT !.pushed = Append(ctx.pushed, error)]
    IN IF ErrorStackHasRoom(c1)
       THEN LET c2 == ParseContextAllocateMemory(c1, msg.bytes + 1) IN
            [c2 EXCEPT !.error_stack = Append(c2.error_stack, error),
                       !.error_stack_size = c2.error_stack_size + 1]
       ELSE c1

MsgMalformedTag == Message("Malformed tag.", <<>>, "")
MsgExpectedValue == Message("Expected value before endline", <<>>, "")
MsgExpectedQuote == Message("Expected \" to follow String assignation.", <<>>, "")
MsgIncorrectChar(c) == Message("Expected Int value but had incorrect char ", <<c>>, ".")
MsgUnexpectedSymbol(chars) == Message("Unexpected symbol '", chars, "'")

----------------------------------------------------------------------------
(* Parser *)

\* the conversion of an int to the i8 that GetValue returns
ToI8(n) == ((n + 128) % 256) - 128

\* a Token as ParseContextAllocateToken returns it
ZeroToken == [type |-> "Token_None", string |-> -1, string_length |-> 0, lines_traversed |-> 0]

\* GetValue, the branch taken at a quote: the scan ends here
GetValueString(m, ov, s) ==
    LET r == RequireTokenType(m, s.tokenizer, ov, "Token_StringConstant", s.value) IN
    IF r.match
    THEN [s EXCEPT !.i = s.i + r.token.string_length, !.isSet = 1,
                   !.value = r.token, !.tokenizer = r.tokenizer]
    ELSE [s EXCEPT !.context = PushParseError(s.context, s.tokenizer, MsgExpectedQuote)]

\* GetValue, the branch taken at a digit when an Int token is consumed
GetValueInt(m, s, r) ==
    LET last == At(m, r.token.string + r.token.string_length - 1) IN
    [s EXCEPT !.value = r.token,
              !.tokenizer = r.tokenizer,
              !.isSet = IF CharIsDigit(last) THEN 1 ELSE @,
              !.context = IF CharIsDigit(last) THEN @
                          ELSE PushParseError(@, r.tokenizer, MsgIncorrectChar(last)),
              !.i = @ + r.token.string_length]

\* GetValue, the branches of one pass of the scan at a character c that is no quote
GetValueStep(m, ov, s, c) ==
    LET r == RequireTokenType(m, s.tokenizer, ov, "Token_Int", s.value) IN
    IF c = "[" THEN [s EXCEPT !.bracket_stack = @ + 1]
    ELSE IF c = "]" THEN [s EXCEPT !.bracket_stack = @ - 1]
    ELSE IF CharIsDigit(c) /\ r.match THEN GetValueInt(m, s, r)
    ELSE s

\* ++link_length
GetValueCount(s) == [s EXCEPT !.link_length = @ + 1]

\* the scan of GetValue from index s.i of link, to the state in which it leaves the loop
RECURSIVE GetValueScan(_, _, _, _), GetValueScanEnd(_, _, _, _)
GetValueScan(m, ov, link, s) ==
    LET c == At(m, link + s.i) IN
    IF c = NUL THEN s
    ELSE IF c = "\"" THEN GetValueString(m, ov, s)
    ELSE GetValueScanEnd(m, ov, link, GetValueStep(m, ov, s, c))

\* the end of one pass of the scan: the count, the test for the semicolon, the step
GetValueScanEnd(m, ov, link, s) ==
    IF At(m, link + s.i) = ";" THEN GetValueCount(s)
    ELSE GetValueScan(m, ov, link, [GetValueCount(s) EXCEPT !.i = @ + 1])

\* the length returned although no value was set
GetValueReturn_LengthAlways(s) == ToI8(s.link_length)

\* what GetValue returns from the state its scan ended in
GetValueReturn(s) == IF s.isSet = 0 THEN 0 ELSE ToI8(s.link_length)

\* GetValue after its scan: the diagnostic of a value never set, and the return
GetValueEnd(s) ==
    [ret |-> GetValueReturn(s),
     context |-> IF s.isSet = 0
                 THEN PushParseError(s.context, s.tokenizer, MsgExpectedValue)
                 ELSE s.context,
     tokenizer |-> s.tokenizer,
     value |-> s.value]

\* GetValue(context, tokenizer, link, value): [ret, context, tokenizer, value]
GetValue(m, ov, ctx, tk, link, value) ==
    GetValueEnd(GetValueScan(m, ov, link,
                    [i |-> 0, link_length |-> 0, isSet |-> 0, bracket_stack |-> 0,
                     context |-> ctx, tokenizer |-> tk, value |-> value]))

\* a Token stored in the arena, with the text of its span
Stored(m, t) ==
    [type |-> t.type, string |-> t.string, string_length |-> t.string_length,
     lines_traversed |-> t.lines_traversed, text |-> Text(m, t.string, t.string_length)]

\* the locals and the state one pass of ParseText's loop works on
ParseState ==
    [context |-> context, tokenizer |-> tokenizer, nodes |-> nodes, result |-> result,
     node_store_target |-> node_store_target]

\* *node_store_target = node; node_store_target = &(*node_store_target)->next;
StoreNode(st, node) ==
    LET n == Len(st.nodes) + 1 IN
    [st EXCEPT
       !.nodes = IF st.node_store_target = 0
                 THEN Append(st.nodes, node)
                 ELSE Append([st.nodes EXCEPT ![st.node_store_target].next = n], node),
       !.result = IF st.node_store_target = 0 THEN n ELSE st.result,
       !.node_store_target = n]

\* where the cursor is put once the node of a declaration is stored
CursorAfterValue(link, link_length) == link + link_length

\* the node of a declaration whose value GetValue returned as gv, and the cursor after it
ParseVarNode(m, st, var, assign, link, gv) ==
    IF gv.ret # 0
    THEN [StoreNode([st EXCEPT !.context = ParseContextAllocateNode(gv.context),
                               !.tokenizer = gv.tokenizer],
                    [type |-> "ExprType_Var",
                     tokens |-> <<Stored(m, var), Stored(m, assign), Stored(m, gv.value)>>,
                     tokens_length |-> 3, next |-> 0])
          EXCEPT !.tokenizer.at = CursorAfterValue(link, gv.ret)]
    ELSE [st EXCEPT !.context = gv.context, !.tokenizer = gv.tokenizer]

\* the directive after the var tag and the assignment have been consumed
ParseVarValue(m, ov, st, var, assign) ==
    ParseVarNode(m, st, var, assign, assign.string + 1,
                 GetValue(m, ov, ParseContextAllocateToken(st.context), st.tokenizer,
                          assign.string + 1, ZeroToken))

\* the var tag without its assignment passed over in silence
ParseVar_NoDiagnostic(m, ov, st, r) ==
    LET st1 == [st EXCEPT !.context = ParseContextAllocateToken(st.context),
                          !.tokenizer = r.tokenizer]
        a   == RequireToken(m, st1.tokenizer, ov, <<"=">>, ZeroToken)
    IN IF a.match
       THEN ParseVarValue(m, ov,
                [st1 EXCEPT !.context = ParseContextAllocateToken(st1.context),
                            !.tokenizer = a.tokenizer],
                r.token, a.token)
       ELSE st1

\* the branch of the loop body taken when a Var token is consumed
ParseVar(m, ov, st, r) ==
    LET st1 == [st EXCEPT !.context = ParseContextAllocateToken(st.context),
                          !.tokenizer = r.tokenizer]
        a   == RequireToken(m, st1.tokenizer, ov, <<"=">>, ZeroToken)
    IN IF a.match
       THEN ParseVarValue(m, ov,
                [st1 EXCEPT !.context = ParseContextAllocateToken(st1.context),
                            !.tokenizer = a.tokenizer],
                r.token, a.token)
       ELSE [st1 EXCEPT !.context = PushParseError(st1.context, st1.tokenizer, MsgMalformedTag)]

\* every symbol taken as a placeholder
ParseSymbol_AcceptsEverySymbol(m, st, r) == [st EXCEPT !.tokenizer = r.tokenizer]

\* the branch taken when a Symbol token is consumed
ParseSymbol(m, st, r) ==
    LET st1 == [st EXCEPT !.tokenizer = r.tokenizer] IN
    IF \/ TokenMatch(m, r.token, <<"*">>)
       \/ TokenMatch(m, r.token, <<"|">>)
       \/ TokenMatch(m, r.token, <<BACKQUOTE>>)
    THEN st1
    ELSE [st1 EXCEPT !.context =
             PushParseError(st1.context, st1.tokenizer,
                 MsgUnexpectedSymbol(Text(m, r.token.string, r.token.string_length)))]

\* one pass of the body of ParseText's while loop, up to the re-peek
ParseTextBody(m, ov, st) ==
    LET v == RequireTokenType(m, st.tokenizer, ov, "Token_Var", ZeroToken)
        y == RequireTokenType(m, st.tokenizer, ov, "Token_Symbol", ZeroToken)
        d == RequireTokenType(m, st.tokenizer, ov, "Token_DoubleNewline", ZeroToken)
    IN IF v.match THEN ParseVar(m, ov, st, v)
       ELSE IF y.match THEN ParseSymbol(m, st, y)
       ELSE IF d.match THEN [st EXCEPT !.tokenizer = d.tokenizer]
       ELSE st

\* the test that ends the loop after a pass: the break on a diagnostic, then the
\* loop condition on the token peeked
LoopEnds(ctx, t) == ctx.error_stack_size > 0 \/ t.type = "Token_None"

----------------------------------------------------------------------------
(* The sources parsed *)

MaxFollowers == 2
MaxFiles == 2
MaxIterations == 4

VarName == <<"v", "a", "r", " ", "a">>

\* what stands between the name and the value
Assigns == { <<"=">>, <<" ", "=">>, <<" ", "=", " ">>, <<" ">>, <<":">> }

Values ==
    { <<"1">>, <<"1", "2">>, <<"1", " ", "2">>, <<"1", " ">>,
      <<"\"", "s", "\"">>, <<"\"", "s">>, <<"\"", "\\", "\"", "\"">>,
      <<>>, <<"x">>, <<"*", "1">>, <<"[", "1", "]">>,
      <<"1", " ", "x", "\"", "s", "\"">>, <<"*", "\"", "s", "\"">> }

Terminators == { <<";">>, <<>> }

Declarations == { VarName \o a \o v \o t : a \in Assigns, v \in Values, t \in Terminators }

Others ==
    { <<"\n", "\n">>, <<"\n">>, <<"*">>, <<"|">>, <<BACKQUOTE>>, <<"=">>, <<"{">>, <<"}">>,
      <<"x">>, <<"1">>, <<"\"", "s", "\"">>, <<"c", "o", "n", "s", "t", " ", "x", ";">>,
      <<";">>, <<"_">>, <<"*", "=">> }

Followers ==
    { <<"\n", "\n">>,
      <<"v", "a", "r", " ", "b", "=", "2", ";">>,
      <<"v", "a", "r", " ", "b", " ", "=", " ", "\"", "t", "\"", ";">> }

RECURSIVE Followed(_, _)
Followed(first, n) ==
    IF n = 0 THEN first
    ELSE first \cup { s \o f : s \in Followed(first, n - 1), f \in Followers }

Sources == Followed(Declarations \cup Others, MaxFollowers)

\* the sources of the files after the first
LaterSources ==
    { <<"v", "a", "r", " ", "b", "=", "2", ";">>,
      <<"v", "a", "r", " ", "b", " ", "2", ";">>,
      <<"*">> }

\* the bytes that follow the buffer's terminator in memory
Tails == { <<>>, <<"1", ";">> }

\* the bytes that follow symbols[6] in memory, up to the first zero
Overruns == { {}, {";"}, {"x"} }

----------------------------------------------------------------------------
(* The parse, one pass of ParseText's loop at a time *)

InitCommon ==
    /\ mem = <<NUL>>
    /\ tokenizer = [at |-> 0, line |-> 1, file |-> 0]
    /\ context = EmptyContext
    /\ pc = "idle"
    /\ token = NoToken
    /\ nodes = <<>>
    /\ result = 0
    /\ node_store_target = 0
    /\ files = <<>>
    /\ iterations = 0
    /\ tree = [root |-> 0, nodes |-> <<>>]
    /\ tree_fault = "none"
    /\ inserted = <<>>

Init ==
    /\ InitCommon
    /\ symbols_overrun \in Overruns

\* ProcessFile on a loaded file: the tokenizer is set up and ParseText runs to its
\* first loop test
ProcessFile ==
    /\ pc \in {"idle", "done"}
    /\ Len(files) < MaxFiles
    /\ \E src \in (IF files = <<>> THEN Sources ELSE LaterSources), tail \in Tails :
          LET m  == src \o <<NUL>> \o tail
              tk == [at |-> 0, line |-> 1, file |-> Len(files) + 1]
              t  == PeekToken(m, tk, symbols_overrun)
          IN /\ mem' = m
             /\ tokenizer' = tk
             /\ token' = t
             /\ result' = 0
             /\ node_store_target' = 0
             /\ iterations' = 0
             /\ pc' = IF t.type = "Token_None" THEN "done" ELSE "loop"
             /\ files' = IF t.type = "Token_None" THEN Append(files, 0) ELSE files
    /\ UNCHANGED <<symbols_overrun, context, nodes, treeVars>>

\* one pass of the while loop: the body, the re-peek and the test that ends the loop
ParseTextIteration ==
    /\ pc = "loop"
    /\ iterations < MaxIterations
    /\ LET st == ParseTextBody(mem, symbols_overrun, ParseState)
           t  == PeekToken(mem, st.tokenizer, symbols_overrun)
       IN /\ context' = st.context
          /\ tokenizer' = st.tokenizer
          /\ nodes' = st.nodes
          /\ result' = st.result
          /\ node_store_target' = st.node_store_target
          /\ token' = t
          /\ iterations' = iterations + 1
          /\ pc' = IF LoopEnds(st.context, t) THEN "done" ELSE "loop"
          /\ files' = IF LoopEnds(st.context, t) THEN Append(files, st.result) ELSE files
    /\ UNCHANGED <<mem, symbols_overrun, treeVars>>

Next ==
    \/ ProcessFile
    \/ ParseTextIteration

Spec == Init /\ [][Next]_vars

----------------------------------------------------------------------------
(* Prefix tree *)

MaxKeyLength == 2
MaxInserts == 3

\* the leading characters of key that equal the node's prefix, as both walks count them
RECURSIVE MatchingKeyCharacters(_, _, _)
MatchingKeyCharacters(node, key, i) ==
    IF i < node.prefix_length /\ i < Len(key) /\ At(key, i) = At(node.prefix, i)
    THEN MatchingKeyCharacters(node, key, i + 1)
    ELSE i

\* a slot a node pointer is stored in: *tree, or a child field of node of
\* (of = 0: the field of an absent node)
RootSlot == [field |-> "tree", of |-> 0]

SlotIsValid(slot) == slot.field = "tree" \/ slot.of # 0

\* *node_target = n
StoreSlot(t, slot, n) ==
    IF slot.field = "tree" THEN [t EXCEPT !.root = n]
    ELSE IF slot.field = "have_child" THEN [t EXCEPT !.nodes[slot.of].have_child = n]
    ELSE [t EXCEPT !.nodes[slot.of].no_have_child = n]

\* the walk's move into the have child: node = node->have_child; node_target = &node->have_child;
DescendHave(t, node) ==
    [node |-> t.nodes[node].have_child,
     node_target |-> [field |-> "have_child", of |-> t.nodes[node].have_child]]

\* node = node->no_have_child; node_target = &node->no_have_child;
DescendNoHave(t, node) ==
    [node |-> t.nodes[node].no_have_child,
     node_target |-> [field |-> "no_have_child", of |-> t.nodes[node].no_have_child]]

NewLeaf(key, value) ==
    [prefix |-> key, prefix_length |-> Len(key), value |-> value, value_length |-> Len(value),
     have_child |-> 0, no_have_child |-> 0]

NewSplit(key, matching, node) ==
    [prefix |-> key, prefix_length |-> matching, value |-> <<>>, value_length |-> 0,
     have_child |-> node, no_have_child |-> 0]

AllocateTreeNode(ctx) == ParseContextAllocateMemory(ctx, SizeofKeywordPrefixTreeNode)

\* InsertKeywordIntoTree from the walk's position (node, node_target):
\* [tree, context, fault]
RECURSIVE InsertWalk(_, _, _, _, _, _, _)
InsertWalk(t, ctx, key, value, node, node_target, fuel) ==
    IF fuel = 0 THEN [tree |-> t, context |-> ctx, fault |-> "loop"]
    ELSE IF node = 0
    THEN IF SlotIsValid(node_target)
         THEN [tree |-> StoreSlot([t EXCEPT !.nodes = Append(t.nodes, NewLeaf(key, value))],
                                  node_target, Len(t.nodes) + 1),
               context |-> AllocateTreeNode(ctx),
               fault |-> "none"]
         ELSE [tree |-> t, context |-> AllocateTreeNode(ctx), fault |-> "store"]
    ELSE LET matching == MatchingKeyCharacters(t.nodes[node], key, 0) IN
         IF matching > 0
         THEN IF t.nodes[node].prefix_length <= 1
              THEN LET d == DescendHave(t, node)
                   IN InsertWalk(t, ctx, key, value, d.node, d.node_target, fuel - 1)
              ELSE LET n  == Len(t.nodes) + 1
                       t1 == StoreSlot([t EXCEPT !.nodes = Append(t.nodes,
                                                     NewSplit(key, matching, node))],
                                       node_target, n)
                   IN InsertWalk(t1, AllocateTreeNode(ctx), key, value, 0,
                                 [field |-> "no_have_child", of |-> n], fuel - 1)
         ELSE LET d == DescendNoHave(t, node)
              IN InsertWalk(t, ctx, key, value, d.node, d.node_target, fuel - 1)

InsertKeywordIntoTree(t, ctx, key, value) ==
    InsertWalk(t, ctx, key, value, t.root, RootSlot, Len(t.nodes) + 3)

\* GetKeywordValueFromTree from node: [value_length, value, loops]
RECURSIVE LookupWalk(_, _, _, _)
LookupWalk(t, keyword, node, fuel) ==
    IF fuel = 0 THEN [value_length |-> 0, value |-> <<>>, loops |-> TRUE]
    ELSE IF node = 0 THEN [value_length |-> 0, value |-> <<>>, loops |-> FALSE]
    ELSE LET matching == MatchingKeyCharacters(t.nodes[node], keyword, 0) IN
         IF matching = t.nodes[node].prefix_length
         THEN IF matching = Len(keyword)
              THEN [value_length |-> t.nodes[node].value_length,
                    value |-> t.nodes[node].value, loops |-> FALSE]
              ELSE LookupWalk(t, keyword, t.nodes[node].have_child, fuel - 1)
         ELSE LookupWalk(t, keyword, t.nodes[node].no_have_child, fuel - 1)

GetKeywordValueFromTree(t, keyword) == LookupWalk(t, keyword, t.root, Len(t.nodes) + 1)

KeyChars == {"a", "b"}

RECURSIVE KeysOfLength(_)
KeysOfLength(n) ==
    IF n = 0 THEN { <<>> } ELSE { Append(k, c) : k \in KeysOfLength(n - 1), c \in KeyChars }

Keys == UNION { KeysOfLength(n) : n \in 1..MaxKeyLength }

TreeValues == { <<"1">>, <<"2">> }

InsertedKeys == { inserted[i].key : i \in 1..Len(inserted) }

InsertKeyword ==
    /\ tree_fault = "none"
    /\ Len(inserted) < MaxInserts
    /\ \E key \in Keys \ InsertedKeys, value \in TreeValues :
          LET r == InsertKeywordIntoTree(tree, context, key, value) IN
          /\ tree' = r.tree
          /\ context' = r.context
          /\ tree_fault' = r.fault
          /\ inserted' = Append(inserted, [key |-> key, value |-> value])
    /\ UNCHANGED parseVars

TreeInit == InitCommon /\ symbols_overrun = {}

TreeNext == InsertKeyword

TreeSpec == TreeInit /\ [][TreeNext]_vars

----------------------------------------------------------------------------
(* The error collector on its own *)

MaxPushes == 40

PushedMessages == { MsgMalformedTag, MsgExpectedValue, MsgExpectedQuote, MsgIncorrectChar(" ") }

\* a caller pushes a diagnostic while its tokenizer stands one line further on; the
\* messages of one run are of one kind
PushError ==
    /\ Len(context.pushed) < MaxPushes
    /\ \E msg \in PushedMessages :
          /\ context.pushed # <<>> => msg.text = context.pushed[1].message
          /\ tokenizer' = [tokenizer EXCEPT !.line = Len(context.pushed) + 1]
          /\ context' = PushParseError(context, tokenizer', msg)
    /\ UNCHANGED <<mem, symbols_overrun, pc, token, nodes, result, node_store_target, files,
                   iterations, treeVars>>

ErrorInit == InitCommon /\ symbols_overrun = {}

ErrorNext == PushError

ErrorSpec == ErrorInit /\ [][ErrorNext]_vars

----------------------------------------------------------------------------
(* The arena on its own *)

MaxAllocations == 4

\* the sizes asked for: nothing, a byte, a node, around the default block size,
\* and the largest int
AllocationSizes ==
    { 0, 1, SizeofExprNode, PARSE_CONTEXT_MEMORY_BLOCK_SIZE_DEFAULT - 1,
      PARSE_CONTEXT_MEMORY_BLOCK_SIZE_DEFAULT, PARSE_CONTEXT_MEMORY_BLOCK_SIZE_DEFAULT + 1,
      INT_MAX }

Allocate ==
    /\ Len(context.allocations) < MaxAllocations
    /\ \E size \in AllocationSizes :
          \E fresh \in NeedsNewBlockOutcomes(context, size) :
              context' = AllocateMemoryWhen(context, size, fresh)
    /\ UNCHANGED <<parseVars, treeVars>>

ArenaInit == InitCommon /\ symbols_overrun = {}

ArenaNext == Allocate

ArenaSpec == ArenaInit /\ [][ArenaNext]_vars

----------------------------------------------------------------------------
(* The lexer on its own: a buffer is loaded and the three lexer operations are    *)
(* called on it in any order.  pc is "loaded" before the first call and "lexed"   *)
(* after a call; result holds the call made last and what it returned; token is   *)
(* the caller's Token that RequireTokenType and RequireToken write through        *)
(* token_ptr.                                                                     *)

MaxTagLength == 3

\* the strings of at most n characters of chars
RECURSIVE Strings(_, _)
Strings(chars, n) ==
    IF n = 0 THEN { <<>> }
    ELSE LET shorter == Strings(chars, n - 1)
         IN shorter \cup { Append(w, c) : w \in shorter, c \in chars }

\* var tags followed by backslashes, delimiters and a letter
VarTagSources ==
    { <<"v", "a", "r">> \o w : w \in Strings({"\\", "=", ":", "a"}, MaxTagLength) }

LexSources ==
    VarTagSources \cup
    { <<>>,
      <<"x", " ", "v", "a", "r", " ", "a", "=", "1", ";">>,
      <<"\n", "v", "a", "r", " ", "a", "=", "1", ";">>,
      <<"v", "a", "r", " ", "a", "\n", "=", "1", ";">>,
      <<"*", "v", "a", "r", "=">>,
      <<"v", "a", "r", " ", "a", "=", "\"", "s", "\"", ";">>,
      <<"\"", "s", "\"">>, <<"\"", "s">>, <<"\"", "s", "\\", "\"">>, <<"\"">>,
      <<"c", "o", "n", "s", "t", " ", "x", ";">>, <<"c", "o", "n", "s", "t", " ", "x">>,
      <<"1", " ", "2", ";">>, <<"1", "\n", "2", ";">>, <<"1", "x">>,
      <<"\n", "\n">>, <<"\n", "\n", "\n", "*">>, <<"\n", "*">>, <<"a", "\n", "b", "\n", "=">>,
      <<"*", "|">>, <<"=", "{", "}">>, <<BACKQUOTE>>, <<"_", ";">>, <<"x">> }

\* the kinds RequireTokenType is asked for
RequiredTypes ==
    { "Token_Var", "Token_Const", "Token_Int", "Token_Float", "Token_DoubleNewline",
      "Token_Symbol", "Token_StringConstant" }

\* the literals RequireToken is asked for
RequiredLiterals == { <<"=">>, <<"*">>, <<"v", "a", "r">>, <<"\"", "s", "\"">>, <<"\n", "\n">> }

\* the tokenizer ProcessFile sets up on a loaded file
LexLoad ==
    /\ pc = "idle"
    /\ \E src \in LexSources, tail \in Tails : mem' = src \o <<NUL>> \o tail
    /\ tokenizer' = [at |-> 0, line |-> 1, file |-> 1]
    /\ pc' = "loaded"
    /\ UNCHANGED <<symbols_overrun, context, token, nodes, result, node_store_target, files,
                   iterations, treeVars>>

\* Token token = PeekToken(tokenizer);
LexPeek ==
    /\ pc \in {"loaded", "lexed"}
    /\ result' = [op |-> "PeekToken", type |-> "", literal |-> <<>>, match |-> 0,
                  returned |-> PeekToken(mem, tokenizer, symbols_overrun)]
    /\ pc' = "lexed"
    /\ UNCHANGED <<mem, symbols_overrun, tokenizer, context, token, nodes, node_store_target,
                   files, iterations, treeVars>>

\* match = RequireTokenType(tokenizer, type, &token);
LexRequireTokenType ==
    /\ pc \in {"loaded", "lexed"}
    /\ \E type \in RequiredTypes :
          LET r == RequireTokenType(mem, tokenizer, symbols_overrun, type, token) IN
          /\ tokenizer' = r.tokenizer
          /\ token' = r.token
          /\ result' = [op |-> "RequireTokenType", type |-> type, literal |-> <<>>,
                        match |-> IF r.match THEN 1 ELSE 0, returned |-> NoToken]
    /\ pc' = "lexed"
    /\ UNCHANGED <<mem, symbols_overrun, context, nodes, node_store_target, files,
                   iterations, treeVars>>

\* match = RequireToken(tokenizer, string, &token);
LexRequireToken ==
    /\ pc \in {"loaded", "lexed"}
    /\ \E string \in RequiredLiterals :
          LET r == RequireToken(mem, tokenizer, symbols_overrun, string, token) IN
          /\ tokenizer' = r.tokenizer
          /\ token' = r.token
          /\ result' = [op |-> "RequireToken", type |-> "", literal |-> string,
                        match |-> IF r.match THEN 1 ELSE 0, returned |-> NoToken]
    /\ pc' = "lexed"
    /\ UNCHANGED <<mem, symbols_overrun, context, nodes, node_store_target, files,
                   iterations, treeVars>>

LexInit == Init

LexNext ==
    \/ LexLoad
    \/ LexPeek
    \/ LexRequireTokenType
    \/ LexRequireToken

LexSpec == LexInit /\ [][LexNext]_vars

----------------------------------------------------------------------------
(* What the claims speak of *)

RECURSIVE TerminatorOffset(_, _)
TerminatorOffset(m, p) == IF At(m, p) = NUL THEN p ELSE TerminatorOffset(m, p + 1)

\* the source text of the buffer: the characters before its terminator
Source == Text(mem, 0, TerminatorOffset(mem, 0))

\* no byte is read past symbols[6] or past the buffer's terminator with an effect:
\* zero bytes follow both
ZeroAfter == symbols_overrun = {} /\ Len(mem) = TerminatorOffset(mem, 0) + 1

\* the first file of the run is the one parsed: its parse started on an empty context
FirstFile == tokenizer.file = 1

NoDiagnostic == context.error_stack_size = 0 /\ context.error_stack = <<>>

MessagesLogged == [i \in 1..Len(context.error_stack) |-> context.error_stack[i].message]

WellFormedAssigns == { <<"=">>, <<" ", "=">>, <<" ", "=", " ">> }

StringValues == { <<"\"", "s", "\"">>, <<"\"", "\\", "\"", "\"">> }

IntValues == { <<"1">>, <<"1", "2">> }

StringDeclarations == { VarName \o a \o v \o <<";">> : a \in WellFormedAssigns, v \in StringValues }

IntDeclarations == { VarName \o a \o v \o <<";">> : a \in WellFormedAssigns, v \in IntValues }

\* the value a declaration of the source gives: what stands between the assignment
\* (with the blanks after it) and the ';'
ValueOf(decl) ==
    CHOOSE v \in StringValues \cup IntValues :
        \E a \in WellFormedAssigns : decl = VarName \o a \o v \o <<";">>

\* the single node of a finished parse is a Var node var-tag -> '=' -> value
OneVarNode(type, text) ==
    /\ pc = "done"
    /\ files = <<1>>
    /\ Len(nodes) = 1
    /\ nodes[1].type = "ExprType_Var"
    /\ nodes[1].tokens_length = 3
    /\ nodes[1].next = 0
    /\ nodes[1].tokens[1].type = "Token_Var"
    /\ nodes[1].tokens[2].text = <<"=">>
    /\ nodes[1].tokens[3].type = type
    /\ nodes[1].tokens[3].text = text

\* C1: every pass of the parse loop moves the cursor forward or ends the loop, so
\* that ParseText terminates on every source
C1_EveryPassProgresses ==
    [][(pc = "loop" /\ ZeroAfter) => (tokenizer'.at > tokenizer.at \/ pc' = "done")]_vars

\* C2: a well-formed string declaration parsed on an empty context gives, once its
\* one directive is parsed, exactly one Var node var-tag -> '=' -> the quoted string,
\* and no diagnostic
C2_StringDeclaration ==
    (ZeroAfter /\ FirstFile /\ Source \in StringDeclarations)
        => /\ NoDiagnostic
           /\ iterations >= 1 => OneVarNode("Token_StringConstant", ValueOf(Source))

\* C3: a well-formed integer declaration parsed on an empty context gives, once its
\* one directive is parsed, exactly one Var node whose value is the Int token D, and
\* no diagnostic
C3_IntDeclaration ==
    (ZeroAfter /\ FirstFile /\ Source \in IntDeclarations)
        => /\ NoDiagnostic
           /\ iterations >= 1 => OneVarNode("Token_Int", ValueOf(Source))

\* C4: no node is appended by a step that pushes a diagnostic, nor by any step taken
\* while the Error Collector is non-empty
C4_NoNodeAfterDiagnostic ==
    [][(ZeroAfter /\ (context.error_stack_size > 0
                      \/ context'.error_stack_size > context.error_stack_size))
          => nodes' = nodes]_vars

\* C5: every key inserted (the keys are pairwise distinct) is looked up to the value
\* inserted with it
C5_LookupReturnsInserted ==
    tree_fault = "none" =>
        \A i \in 1..Len(inserted) :
            LET r == GetKeywordValueFromTree(tree, inserted[i].key) IN
            /\ ~r.loops
            /\ r.value_length = Len(inserted[i].value)
            /\ r.value = inserted[i].value

FollowerDeclarations ==
    { <<"v", "a", "r", " ", "b", "=", "2", ";">>,
      <<"v", "a", "r", " ", "b", " ", "=", " ", "\"", "t", "\"", ";">> }

\* C6: two well-formed declarations separated by a blank line give one Var node
\* each, linked by next in source order and ending in a null next; the pass that
\* consumes the DoubleNewline adds no node; no diagnostic is recorded
C6_BlankLineSeparated ==
    \A d1 \in StringDeclarations \cup IntDeclarations, d2 \in FollowerDeclarations :
        (ZeroAfter /\ FirstFile /\ Source = d1 \o <<"\n", "\n">> \o d2)
            => /\ NoDiagnostic
               /\ iterations \in {1, 2} => (pc = "loop" /\ Len(nodes) = 1)
               /\ iterations >= 3 =>
                     /\ pc = "done"
                     /\ files = <<1>>
                     /\ Len(nodes) = 2
                     /\ nodes[1].type = "ExprType_Var" /\ nodes[2].type = "ExprType_Var"
                     /\ nodes[1].next = 2 /\ nodes[2].next = 0
                     /\ nodes[1].tokens[1].string = 0
                     /\ nodes[2].tokens[1].string = Len(d1) + 2

\* a Var token is next and the token after it is not the literal '='
VarTagWithoutAssign ==
    LET v == RequireTokenType(mem, tokenizer, symbols_overrun, "Token_Var", ZeroToken) IN
    /\ v.match
    /\ ~RequireToken(mem, v.tokenizer, symbols_overrun, <<"=">>, ZeroToken).match

\* C7: whenever the loop consumes a Var token that the literal '=' does not follow,
\* "Malformed tag." is pushed and no node is appended
C7_MalformedTag ==
    [][(pc = "loop" /\ VarTagWithoutAssign)
          => /\ nodes' = nodes
             /\ Len(context'.error_stack) = Len(context.error_stack) + 1
             /\ context'.error_stack[Len(context'.error_stack)].message = "Malformed tag."
             /\ SubSeq(context'.error_stack, 1, Len(context.error_stack)) = context.error_stack
       ]_vars

\* var a 1; has been parsed: one diagnostic, no node
C7_Witness ==
    /\ pc = "done" /\ FirstFile /\ ZeroAfter
    /\ Source = VarName \o <<" ", "1", ";">>
    /\ nodes = <<>> /\ files = <<0>>
    /\ MessagesLogged = <<"Malformed tag.">>

EmbeddedSpaceDeclarations ==
    { VarName \o a \o <<"1", " ", "2", ";">> : a \in WellFormedAssigns }

\* C8: a declaration whose digits are separated by a blank is rejected: no node is
\* ever appended for it, and once its directive is parsed the parse has ended with
\* the invalid-integer diagnostic recorded
C8_EmbeddedBlankRejected ==
    (ZeroAfter /\ FirstFile /\ Source \in EmbeddedSpaceDeclarations)
        => /\ nodes = <<>>
           /\ iterations >= 1 =>
                 /\ pc = "done"
                 /\ \E i \in 1..Len(context.error_stack), c \in Alphabet :
                       context.error_stack[i].message = MsgIncorrectChar(c).text

\* from offset p up to the first ';' or the terminator there is neither a quote nor a digit
RECURSIVE NoValueSpan(_, _)
NoValueSpan(m, p) ==
    LET c == At(m, p) IN
    IF c = NUL \/ c = ";" THEN TRUE
    ELSE IF c = "\"" \/ c \in {"0", "1", "2", "3", "9"} THEN FALSE
    ELSE NoValueSpan(m, p + 1)

MissingValueDeclarations ==
    { VarName \o a \o v \o <<";">> : a \in WellFormedAssigns, v \in { <<>>, <<"x">> } }

\* C9: on a value span that holds neither a string constant nor an integer before
\* its ';', GetValue pushes "Expected value before endline" and returns 0; a
\* declaration with such a span gives no node
C9_MissingValue ==
    /\ \A p \in 1..Len(mem) :
          (mem[p] = "=" /\ NoValueSpan(mem, p)) =>
              LET gv == GetValue(mem, symbols_overrun, context,
                                 [tokenizer EXCEPT !.at = p], p, ZeroToken)
              IN /\ gv.ret = 0
                 /\ Len(gv.context.error_stack) = Len(context.error_stack) + 1
                 /\ gv.context.error_stack[Len(gv.context.error_stack)].message
                       = "Expected value before endline"
    /\ (FirstFile /\ Source \in MissingValueDeclarations /\ iterations >= 1)
          => /\ nodes = <<>>
             /\ pc = "done"
             /\ MessagesLogged = <<"Expected value before endline">>

\* var a = ; has been parsed: the diagnostic, and no node
C9_Witness ==
    /\ pc = "done" /\ FirstFile /\ ZeroAfter
    /\ Source = VarName \o <<" ", "=", " ", ";">>
    /\ nodes = <<>> /\ files = <<0>>
    /\ MessagesLogged = <<"Expected value before endline">>

\* C10: after n pushes the log holds the first min(n, 32) diagnostics pushed, in
\* the order pushed
C10_FirstThirtyTwo ==
    LET n == Len(context.pushed)
        k == IF n < 32 THEN n ELSE 32
    IN /\ context.error_stack_size = k
       /\ Len(context.error_stack) = k
       /\ \A i \in 1..k : context.error_stack[i] = context.pushed[i]

\* forty diagnostics have been pushed on one context
C10_Witness ==
    /\ Len(context.pushed) = 40
    /\ context.error_stack_size = 32
    /\ context.error_stack[32].line = 32

\* the bytes of an allocation lie inside the block it was served from
InsideItsBlock(a) ==
    /\ a.block \in 1..Len(context.blocks)
    /\ a.offset >= 0
    /\ a.offset <= context.blocks[a.block].size - a.size

\* C11: the byte ranges returned for two distinct allocations are disjoint, and each
\* range lies wholly inside one block
C11_AllocationsDisjoint ==
    \A i \in 1..Len(context.allocations) :
        LET a == context.allocations[i] IN
        /\ InsideItsBlock(a)
        /\ \A j \in (i + 1)..Len(context.allocations) :
              LET b == context.allocations[j] IN
              /\ InsideItsBlock(b)
              /\ a.block = b.block =>
                    (a.offset + a.size <= b.offset \/ b.offset + b.size <= a.offset)

\* the size asked for by the allocation a step makes
SizeAsked == context'.allocations[Len(context'.allocations)].size

\* alloc_position + size <= the capacity of the active block
FitsActiveBlock(ctx, size) ==
    /\ ctx.active # 0
    /\ ctx.blocks[ctx.active].alloc_position <= ctx.blocks[ctx.active].size - size

\* C12: an allocation bumps the active block exactly when alloc_position + size <=
\* its capacity, and otherwise appends a block of capacity max(size, 4096) at the
\* tail of the chain and makes it active; every block keeps 0 <= alloc_position <=
\* capacity, and the alloc_position of a block that is not active does not change
C12_BlockRule ==
    [][Len(context'.allocations) = Len(context.allocations) + 1 =>
        LET n == Len(context.blocks) IN
        /\ FitsActiveBlock(context, SizeAsked) =>
              /\ Len(context'.blocks) = n
              /\ context'.active = context.active
              /\ context'.allocations[Len(context'.allocations)] =
                    [block |-> context.active,
                     offset |-> context.blocks[context.active].alloc_position,
                     size |-> SizeAsked]
              /\ context'.blocks[context.active].alloc_position =
                    context.blocks[context.active].alloc_position + SizeAsked
        /\ ~FitsActiveBlock(context, SizeAsked) =>
              /\ Len(context'.blocks) = n + 1
              /\ context'.active = n + 1
              /\ context'.blocks[n + 1].size =
                    (IF SizeAsked > PARSE_CONTEXT_MEMORY_BLOCK_SIZE_DEFAULT
                     THEN SizeAsked ELSE PARSE_CONTEXT_MEMORY_BLOCK_SIZE_DEFAULT)
              /\ context'.blocks[n + 1].next = 0
              /\ context.active # 0 => context'.blocks[context.active].next = n + 1
              /\ context'.allocations[Len(context'.allocations)] =
                    [block |-> n + 1, offset |-> 0, size |-> SizeAsked]
        /\ \A b \in 1..Len(context'.blocks) :
              /\ context'.blocks[b].alloc_position >= 0
              /\ context'.blocks[b].alloc_position <= context'.blocks[b].size
        /\ \A b \in 1..n :
              b # context'.active =>
                  context'.blocks[b].alloc_position = context.blocks[b].alloc_position
       ]_vars

\* a lexer operation has been called on the loaded buffer, or is about to be
Lexing == pc \in {"loaded", "lexed"}

\* C13: PeekToken leaves the cursor and the line counter as they were; RequireTokenType
\* and RequireToken match exactly when the next token is of the kind asked for, or
\* reads exactly as the literal asked for; without a match they leave the cursor,
\* the line counter and the output token as they were, with a match they put the
\* cursor at the end of the token's span and write the token to the output
\* parameter; no call changes the buffer
C13_LexerFrame ==
    [][pc' = "lexed" =>
        LET t       == GetNextTokenFromBuffer(mem, tokenizer, symbols_overrun)
            matches == IF result'.op = "RequireTokenType"
                       THEN t.type = result'.type
                       ELSE /\ t.type # "Token_None"
                            /\ Text(mem, t.string, t.string_length) = result'.literal
        IN /\ mem' = mem
           /\ result'.op = "PeekToken" =>
                 /\ tokenizer'.at = tokenizer.at
                 /\ tokenizer'.line = tokenizer.line
           /\ result'.op # "PeekToken" =>
                 /\ result'.match = (IF matches THEN 1 ELSE 0)
                 /\ ~matches =>
                       /\ tokenizer'.at = tokenizer.at
                       /\ tokenizer'.line = tokenizer.line
                       /\ token' = token
                 /\ matches =>
                       /\ tokenizer'.at = t.string + t.string_length
                       /\ token' = t
       ]_vars

\* a call that did not match, after a call that matched and moved the cursor to the
\* end of the token it wrote
C13_Witness ==
    /\ pc = "lexed"
    /\ result.op = "RequireTokenType" /\ result.match = 0
    /\ token.type = "Token_Var"
    /\ tokenizer.at = token.string + token.string_length
    /\ tokenizer.at > 0

\* the loop is about to consume a Symbol token
SymbolIsNext ==
    /\ pc = "loop"
    /\ ~RequireTokenType(mem, tokenizer, symbols_overrun, "Token_Var", ZeroToken).match
    /\ RequireTokenType(mem, tokenizer, symbols_overrun, "Token_Symbol", ZeroToken).match

\* C14: the pass that consumes a Symbol token appends no node; for the texts *, |
\* and backquote it pushes no diagnostic, for any other text it pushes exactly one,
\* "Unexpected symbol '<text>'" with the text of the symbol
C14_SymbolHandling ==
    [][SymbolIsNext =>
        LET y    == GetNextTokenFromBuffer(mem, tokenizer, symbols_overrun)
            text == Text(mem, y.string, y.string_length)
            was  == Len(context.error_stack)
        IN /\ nodes' = nodes
           /\ text \in { <<"*">>, <<"|">>, <<BACKQUOTE>> } =>
                 context'.error_stack = context.error_stack
           /\ text \notin { <<"*">>, <<"|">>, <<BACKQUOTE>> } =>
                 /\ Len(context'.error_stack) = was + 1
                 /\ SubSeq(context'.error_stack, 1, was) = context.error_stack
                 /\ context'.error_stack[was + 1].message
                       = "Unexpected symbol '" \o Join(text) \o "'"
       ]_vars

\* *= has been parsed: the star in silence, then the diagnostic for the equals sign
C14_Witness ==
    /\ pc = "done" /\ FirstFile /\ ZeroAfter
    /\ Source = <<"*", "=">>
    /\ iterations = 2
    /\ nodes = <<>>
    /\ MessagesLogged = <<"Unexpected symbol '='">>

\* C15: a pass never leaves the cursor before the place it found it, and a pass that
\* appends a Var node leaves the cursor at or after the end of the value token
\* it accepted
C15_CursorPastValue ==
    [][(pc = "loop" /\ ZeroAfter) =>
        /\ tokenizer'.at >= tokenizer.at
        /\ Len(nodes') > Len(nodes) =>
              LET value == nodes'[Len(nodes')].tokens[3]
              IN tokenizer'.at >= value.string + value.string_length
       ]_vars

\* C17: a parse that started on an empty Error Collector returns with at most one
\* diagnostic pushed
C17_AtMostOneDiagnostic ==
    (pc = "done" /\ FirstFile /\ ZeroAfter) =>
        /\ context.error_stack_size <= 1
        /\ Len(context.pushed) <= 1

\* the slot the walk of insert comes to as the claim describes it: from node N into
\* N's no_have_child when no leading character matches, into N's have_child when
\* some match and N's prefix is at most one character long; "split" where the walk
\* restructures instead, "loop" where it does not end
RECURSIVE ClaimedSlot(_, _, _, _, _)
ClaimedSlot(t, key, node, slot, fuel) ==
    IF fuel = 0 THEN [field |-> "loop", of |-> 0]
    ELSE IF node = 0 THEN slot
    ELSE IF MatchingKeyCharacters(t.nodes[node], key, 0) = 0
         THEN ClaimedSlot(t, key, t.nodes[node].no_have_child,
                          [field |-> "no_have_child", of |-> node], fuel - 1)
    ELSE IF t.nodes[node].prefix_length <= 1
         THEN ClaimedSlot(t, key, t.nodes[node].have_child,
                          [field |-> "have_child", of |-> node], fuel - 1)
    ELSE [field |-> "split", of |-> node]

\* C16: an insert whose walk comes, without restructuring, to an empty child slot of
\* an existing node N stores the new leaf (prefix = key, value = the value
\* given) in that slot of N and changes no other slot; no insert stores through a
\* field of an absent node
C16_LeafInItsSlot ==
    [][Len(inserted') = Len(inserted) + 1 =>
        LET key   == inserted'[Len(inserted')].key
            value == inserted'[Len(inserted')].value
            slot  == ClaimedSlot(tree, key, tree.root, RootSlot, Len(tree.nodes) + 1)
            n     == Len(tree.nodes) + 1
        IN /\ tree_fault' # "store"
           /\ slot.field \in {"have_child", "no_have_child"} =>
                 /\ tree'.root = tree.root
                 /\ Len(tree'.nodes) = n
                 /\ tree'.nodes[n] =
                       [prefix |-> key, prefix_length |-> Len(key), value |-> value,
                        value_length |-> Len(value), have_child |-> 0, no_have_child |-> 0]
                 /\ \A i \in 1..Len(tree.nodes) :
                       tree'.nodes[i] =
                           IF i = slot.of THEN [tree.nodes[i] EXCEPT ![slot.field] = n]
                           ELSE tree.nodes[i]
       ]_vars

\* C18: while tokens are consumed from line 1 at the start of the buffer, the line
\* counter is 1 plus the number of newline characters before the cursor
C18_LineCounter ==
    Lexing => tokenizer.line = 1 + CountNewlines(mem, 0, tokenizer.at)

\* the keyword var stands at offset s
VarAt(m, s) == At(m, s) = "v" /\ At(m, s + 1) = "a" /\ At(m, s + 2) = "r"

\* a token other than a Var tag starts at offset i
OtherTokenAt(m, i, ov) ==
    \/ At(m, i) = "\n" /\ At(m, i + 1) = "\n"
    \/ Text(m, i, 5) = <<"c", "o", "n", "s", "t">>
    \/ At(m, i) = "\""
    \/ At(m, i) \in {"0", "1", "2", "3", "9"}
    \/ At(m, i) \in ({"=", "{", "}", "*", "|", BACKQUOTE} \cup ov)

\* the backslashes that stand in a row right before offset q, back to offset lo
RECURSIVE BackslashesBefore(_, _, _)
BackslashesBefore(m, q, lo) ==
    IF q > lo /\ At(m, q - 1) = "\\" THEN 1 + BackslashesBefore(m, q - 1, lo) ELSE 0

\* an = or : at offset q of the tag that starts at s, with no backslash escaping it:
\* a backslash escapes exactly the character after it
UnescapedDelimiter(m, s, q) ==
    /\ At(m, q) \in {"=", ":"}
    /\ BackslashesBefore(m, q, s) % 2 = 0

\* where the span of the tag that starts at s is to end
VarTagEnd(m, s) ==
    LET term == TerminatorOffset(m, s)
        ends == { q \in s..term : q = term \/ UnescapedDelimiter(m, s, q) }
    IN CHOOSE q \in ends : \A e \in ends : q <= e

\* C19: from every offset p of the buffer, a Var token starts at the first offset
\* at or after p where var stands, and is returned whenever no other token starts
\* before that offset; its span ends right before the first unescaped = or : after
\* the keyword, or at the terminator, and holds no unescaped = or :
C19_VarTagSpan ==
    Lexing =>
        \A p \in 0..TerminatorOffset(mem, 0) :
            LET t    == GetNextTokenFromBuffer(mem, [tokenizer EXCEPT !.at = p], symbols_overrun)
                term == TerminatorOffset(mem, p)
                vars_at == { s \in p..term : VarAt(mem, s) }
            IN /\ t.type = "Token_Var" =>
                     /\ t.string \in vars_at
                     /\ \A s \in vars_at : t.string <= s
                     /\ t.string + t.string_length = VarTagEnd(mem, t.string)
                     /\ \A q \in t.string..(t.string + t.string_length - 1) :
                           ~UnescapedDelimiter(mem, t.string, q)
               /\ \A s \in vars_at :
                     (\A i \in p..(s - 1) : ~VarAt(mem, i) /\ ~OtherTokenAt(mem, i, symbols_overrun))
                         => (t.type = "Token_Var" /\ t.string = s)

\* the tag of var\\= has been consumed: the escaped backslash does not escape the
\* = after it, which ends the span
C19_Witness ==
    /\ pc = "lexed"
    /\ Text(mem, 0, 7) = <<"v", "a", "r", "\\", "\\", "=", NUL>>
    /\ result.op = "RequireTokenType" /\ result.match = 1
    /\ token.type = "Token_Var" /\ token.string = 0 /\ token.string_length = 5
    /\ tokenizer.at = 5

\* C20: the span of every token the lexer returns ends at or before the buffer's
\* terminator, and the cursor stays at or before the terminator
C20_SpansInsideBuffer ==
    Lexing =>
        LET term == TerminatorOffset(mem, 0)
            t    == GetNextTokenFromBuffer(mem, tokenizer, symbols_overrun)
        IN /\ tokenizer.at <= term
           /\ t.type # "Token_None" => (t.string >= 0 /\ t.string + t.string_length <= term)

====
